---- MODULE Spec2Model ----
(***************************************************************************)
(* Model of src/src/screen.rs (rim): the Cell/Size geometry, the           *)
(* CellIterator and the Screen lifecycle over its Terminal.                 *)
(*                                                                          *)
(* The source is pre-1.0 Rust: integer arithmetic wraps at the type's      *)
(* width (there are no overflow checks), `as` casts reinterpret the bits,  *)
(* and `.unwrap()` on a failed write panics.                               *)
(***************************************************************************)
EXTENDS Integers, Sequences, FiniteSets, TLC

(* ------------------------------ bounds --------------------------------- *)
\* Screen::setup() calls the client makes (one slot per call).
MaxScreens == 2
\* Calls of setup/update_size/size/put/clear/flush the client makes in a run.
MaxCalls == 4
\* Coordinates 0..MaxCoord, plus the largest u16, are the sampled values of
\* rows and columns for the Screen's sizes and positions.
MaxCoord == 1

(* ----------------------- fixed-width integers -------------------------- *)
U16Max == 65535
U16Mod == U16Max + 1
I16Max == 32767

\* u16 arithmetic wraps modulo 2^16.
WrapU16(x) == x % U16Mod
\* `x as i16` of a u16: the same 16 bits read as two's complement.
AsI16(x) == IF x > I16Max THEN x - U16Mod ELSE x
\* i16 arithmetic wraps into -2^15 .. 2^15-1.
WrapI16(x) == ((x + I16Max + 1) % U16Mod) - (I16Max + 1)
\* `x as u16` of an i16.
AsU16(x) == x % U16Mod
\* cmp::max
Max(a, b) == IF a >= b THEN a ELSE b

\* Option<T>: None is the empty sequence, Some(x) the one-element sequence.
None == << >>
Some(x) == << x >>

(* ------------------------------ geometry ------------------------------- *)
\* Size(rows, cols) and Cell(row, col) are pairs of u16.
Size_from_cell(cell) == << cell[1], cell[2] >>
Cell_from_size(size) == << size[1], size[2] >>

\* Variant: the bound itself is accepted.
Cell_within_le(cell, size) ==
  IF cell[1] <= size[1] /\ cell[2] <= size[2] THEN Some(cell) ELSE None

\* Variant: only the row is checked.
Cell_within_rows_only(cell, size) ==
  IF cell[1] < size[1] THEN Some(cell) ELSE None

\* Variant: a column equal to the bound is accepted.
Cell_within_col_le(cell, size) ==
  IF cell[1] < size[1] /\ cell[2] <= size[2] THEN Some(cell) ELSE None

\* Variant: a row equal to the bound is accepted.
Cell_within_row_le(cell, size) ==
  IF cell[1] <= size[1] /\ cell[2] < size[2] THEN Some(cell) ELSE None

Cell_within(cell, size) ==
  IF cell[1] < size[1] /\ cell[2] < size[2] THEN Some(cell) ELSE None

Cell_add(a, b) == << WrapU16(a[1] + b[1]), WrapU16(a[2] + b[2]) >>

Cell_sub(a, b) ==
  << AsU16(Max(WrapI16(AsI16(a[1]) - AsI16(b[1])), 0)),
     AsU16(Max(WrapI16(AsI16(a[2]) - AsI16(b[2])), 0)) >>

(* ------------------------------- colours ------------------------------- *)
\* color::Color::to_term_color: the term crate's colour number of each name.
to_term_color(c) ==
  CASE c = "Black"         -> 0
    [] c = "Red"           -> 1
    [] c = "Green"         -> 2
    [] c = "Yellow"        -> 3
    [] c = "Blue"          -> 4
    [] c = "Magenta"       -> 5
    [] c = "Cyan"          -> 6
    [] c = "White"         -> 7
    [] c = "BrightBlack"   -> 8
    [] c = "BrightRed"     -> 9
    [] c = "BrightGreen"   -> 10
    [] c = "BrightYellow"  -> 11
    [] c = "BrightBlue"    -> 12
    [] c = "BrightMagenta" -> 13
    [] c = "BrightCyan"    -> 14
    [] c = "BrightWhite"   -> 15

(* ------------------------------ Terminal ------------------------------- *)
\* Each Terminal method performs one write on its terminal; a write is the
\* triple <<what, a, b>> of what it sends.
Terminal_set_fg(fg) == << "fg", to_term_color(fg), 0 >>
Terminal_set_bg(bg) == << "bg", to_term_color(bg), 0 >>
Terminal_clear == << "clear", 0, 0 >>
Terminal_enable_altscreen == << "enable_altscreen", 0, 0 >>
Terminal_disable_altscreen == << "disable_altscreen", 0, 0 >>
Terminal_hide_cursor == << "hide_cursor", 0, 0 >>
Terminal_show_cursor == << "show_cursor", 0, 0 >>
\* The transport is one-indexed: row + 1 and col + 1 in u16.
Terminal_set_cursor_position(row, col) ==
  << "cursor", WrapU16(row + 1), WrapU16(col + 1) >>
Terminal_put(character) == << "put", character, 0 >>
Terminal_flush == << "flush", 0, 0 >>

\* term::stdout(): a terminal for the process's standard output, or None
\* when none can be made (no terminfo for it). Nothing in it depends on
\* the terminals already handed out.
Terminal_new == { None, Some("stdout") }

\* term_size::size(): the ioctl's (rows, cols), or None when it fails.
CoordVals == (0 .. MaxCoord) \cup { U16Max }
term_size_size == { None } \cup { Some(<< r, c >>) : r \in CoordVals, c \in CoordVals }

(* ------------------------------- inputs -------------------------------- *)
Screens == 1 .. MaxScreens
Positions == CoordVals \X CoordVals
\* (character, fg, bg) of the put calls the client makes.
Styles == { << 97, "Red", "BrightBlue" >>, << 98, "BrightBlue", "Red" >> }

(* ------------------------------- state --------------------------------- *)
VARIABLES
  st,       \* st[s]: "Uninitialized" (setup not called), "Failed" (setup
            \* returned Err), "Crashed" (setup panicked), "Active" (the Screen
            \* lives), "Closed" (the Screen was dropped)
  size,     \* size[s]: Screen.size
  trace,    \* trace[s]: the writes the terminal of Screen s accepted, in order
  fault,    \* fault[s]: where a write of s's terminal was rejected (the
            \* unwrap panicked): "none", "setup", "call" or "drop"
  proc,     \* "running", "unwinding" (a panic propagates), "aborted" (a panic
            \* was raised while unwinding)
  call,     \* the last call of the client and its arguments
  ret,      \* what that call returned
  ncalls,   \* calls made so far
  iter,     \* the CellIterator: next_cell, size, width
  iter_in,  \* the arguments CellIterator::new was called with
  yielded,  \* the Some values next() has returned, in order
  iter_ret, \* what the last next() returned; "new" before the first
  geom      \* the Cell operation last applied: op, its operands a and b, out

vars == << st, size, trace, fault, proc, call, ret, ncalls,
           iter, iter_in, yielded, iter_ret, geom >>
screen_vars == << st, size, trace, fault, proc, call, ret, ncalls >>
iter_vars == << iter, iter_in, yielded, iter_ret >>

NoCall == [ op |-> "none", s |-> 0, pos |-> << 0, 0 >>, style |-> << 0, "Black", "Black" >>,
            q |-> None ]
Unit == << "unit", 0 >>

\* Variant: the rejected write is counted as sent.
Accepted_through(writes, k) ==
  IF k < Len(writes) THEN SubSeq(writes, 1, k + 1) ELSE writes

\* The first k of the writes are accepted; when k < Len(writes) the next one
\* is rejected and its unwrap panics.
Accepted(writes, k) == SubSeq(writes, 1, k)

Call(op, s, pos, style, q) == [ op |-> op, s |-> s, pos |-> pos, style |-> style, q |-> q ]

(* ------------------------------- Screen -------------------------------- *)
\* Variant: the screen is cleared before the alternate screen is entered.
Screen_setup_writes_clear_first ==
  << Terminal_clear, Terminal_enable_altscreen, Terminal_hide_cursor >>

\* The writes of setup's closure, made on the terminal it was given.
Screen_setup_writes ==
  << Terminal_enable_altscreen, Terminal_hide_cursor, Terminal_clear >>

\* Variant: the setup sequence is written whatever Terminal::new() returned.
Screen_setup_writes_always(t) == Screen_setup_writes

\* The writes of a setup() whose Terminal::new() returned t: map_or runs the
\* closure only on Some.
Screen_setup_writes_for(t) == IF t = None THEN << >> ELSE Screen_setup_writes

\* Variant: the alternate screen is left before the cursor is shown.
Screen_drop_writes_swapped ==
  << Terminal_clear, Terminal_disable_altscreen, Terminal_show_cursor >>

\* The writes of Drop for Screen.
Screen_drop_writes ==
  << Terminal_clear, Terminal_show_cursor, Terminal_disable_altscreen >>

\* Variant: the background is set before the foreground.
Screen_put_writes_bg_first(stored, position, character, fg, bg) ==
  LET cell == Cell_within(position, stored)
  IN  IF cell = None THEN << >>
      ELSE << Terminal_set_cursor_position(cell[1][1], cell[1][2]),
              Terminal_set_bg(bg),
              Terminal_set_fg(fg),
              Terminal_put(character) >>

\* The writes of put: the closure runs on the cell only when it is within
\* the stored size.
Screen_put_writes(stored, position, character, fg, bg) ==
  LET cell == Cell_within(position, stored)
  IN  IF cell = None THEN << >>
      ELSE << Terminal_set_cursor_position(cell[1][1], cell[1][2]),
              Terminal_set_fg(fg),
              Terminal_set_bg(bg),
              Terminal_put(character) >>

\* Variant: the comparison is made after the assignment.
Screen_update_size_result_late(stored, q) ==
  IF q = None THEN << stored, FALSE >>
  ELSE LET current_size == q[1]
       IN  << current_size, current_size # current_size >>

\* Variant: a failed query resets the stored size to "unknown".
Screen_update_size_result_reset(stored, q) ==
  IF q = None THEN << << 0, 0 >>, FALSE >>
  ELSE LET current_size == q[1]
           size_changed == current_size # stored
       IN  << current_size, size_changed >>

\* update_size on the query result q: << the size stored next, the result >>.
Screen_update_size_result(stored, q) ==
  IF q = None THEN << stored, FALSE >>
  ELSE LET current_size == q[1]
           size_changed == current_size # stored
       IN  << current_size, size_changed >>

\* A panic raised while the process runs starts unwinding; one raised while
\* it unwinds aborts the process.
Panic(p) == IF p = "running" THEN "unwinding" ELSE "aborted"

\* The s-th call of Screen::setup().
Screen_setup(s) ==
  /\ proc = "running"
  /\ st[s] = "Uninitialized"
  /\ ncalls < MaxCalls
  /\ IF s = 1 THEN TRUE ELSE st[s - 1] # "Uninitialized"
  /\ \E t \in Terminal_new :
       LET writes == Screen_setup_writes_for(t)
       IN  \E k \in 0 .. Len(writes) :
             /\ trace' = [trace EXCEPT ![s] = Accepted(writes, k)]
             /\ call' = Call("setup", s, << 0, 0 >>, NoCall.style, t)
             /\ IF k < Len(writes)
                  THEN /\ st' = [st EXCEPT ![s] = "Crashed"]
                       /\ fault' = [fault EXCEPT ![s] = "setup"]
                       /\ proc' = Panic(proc)
                       /\ ret' = << "panic", 0 >>
                       /\ size' = size
                  ELSE IF t = None
                  THEN /\ st' = [st EXCEPT ![s] = "Failed"]
                       /\ ret' = << "Err", "Failed creating a terminal for stdout." >>
                       /\ UNCHANGED << fault, proc, size >>
                  ELSE /\ st' = [st EXCEPT ![s] = "Active"]
                       /\ size' = [size EXCEPT ![s] = << 0, 0 >>]
                       /\ ret' = << "Ok", s >>
                       /\ UNCHANGED << fault, proc >>
  /\ ncalls' = ncalls + 1
  /\ UNCHANGED << iter_vars, geom >>

Callable(s) ==
  /\ proc = "running"
  /\ st[s] = "Active"
  /\ ncalls < MaxCalls

Screen_update_size(s) ==
  /\ Callable(s)
  /\ \E q \in term_size_size :
       LET r == Screen_update_size_result(size[s], q)
       IN  /\ size' = [size EXCEPT ![s] = r[1]]
           /\ ret' = << "bool", r[2] >>
           /\ call' = Call("update_size", s, << 0, 0 >>, NoCall.style, q)
  /\ ncalls' = ncalls + 1
  /\ UNCHANGED << st, trace, fault, proc, iter_vars, geom >>

Screen_size(s) ==
  /\ Callable(s)
  /\ ret' = << "size", size[s] >>
  /\ call' = Call("size", s, << 0, 0 >>, NoCall.style, None)
  /\ ncalls' = ncalls + 1
  /\ UNCHANGED << st, size, trace, fault, proc, iter_vars, geom >>

\* A call on Screen s that makes these writes, in order, each unwrapped.
Write(s, writes, c) ==
  \E k \in 0 .. Len(writes) :
    /\ trace' = [trace EXCEPT ![s] = trace[s] \o Accepted(writes, k)]
    /\ call' = c
    /\ IF k < Len(writes)
         THEN /\ fault' = [fault EXCEPT ![s] = "call"]
              /\ proc' = Panic(proc)
              /\ ret' = << "panic", 0 >>
         ELSE /\ ret' = Unit
              /\ UNCHANGED << fault, proc >>

\* Variant: clearing also forgets the stored size.
Screen_clear_resets(s) ==
  /\ Callable(s)
  /\ Write(s, << Terminal_clear >>, Call("clear", s, << 0, 0 >>, NoCall.style, None))
  /\ ncalls' = ncalls + 1
  /\ size' = [size EXCEPT ![s] = << 0, 0 >>]
  /\ UNCHANGED << st, iter_vars, geom >>

Screen_clear(s) ==
  /\ Callable(s)
  /\ Write(s, << Terminal_clear >>, Call("clear", s, << 0, 0 >>, NoCall.style, None))
  /\ ncalls' = ncalls + 1
  /\ UNCHANGED << st, size, iter_vars, geom >>

Screen_put(s) ==
  /\ Callable(s)
  /\ \E position \in Positions, style \in Styles :
       Write(s, Screen_put_writes(size[s], position, style[1], style[2], style[3]),
             Call("put", s, position, style, None))
  /\ ncalls' = ncalls + 1
  /\ UNCHANGED << st, size, iter_vars, geom >>

Screen_flush(s) ==
  /\ Callable(s)
  /\ Write(s, << Terminal_flush >>, Call("flush", s, << 0, 0 >>, NoCall.style, None))
  /\ ncalls' = ncalls + 1
  /\ UNCHANGED << st, size, iter_vars, geom >>

\* Drop for Screen: the client releases the Screen, or unwinding does.
Screen_drop(s) ==
  /\ proc \in { "running", "unwinding" }
  /\ st[s] = "Active"
  /\ \E k \in 0 .. Len(Screen_drop_writes) :
       /\ trace' = [trace EXCEPT ![s] = trace[s] \o Accepted(Screen_drop_writes, k)]
       /\ IF k < Len(Screen_drop_writes)
            THEN /\ fault' = [fault EXCEPT ![s] = "drop"]
                 /\ proc' = Panic(proc)
                 /\ ret' = << "panic", 0 >>
            ELSE /\ ret' = Unit
                 /\ UNCHANGED << fault, proc >>
  /\ st' = [st EXCEPT ![s] = "Closed"]
  /\ call' = Call("drop", s, << 0, 0 >>, NoCall.style, None)
  /\ UNCHANGED << size, ncalls, iter_vars, geom >>

(* ---------------------------- CellIterator ----------------------------- *)
\* Variant: the start cell is taken without the bounds check.
CellIterator_new_unchecked(start, region) ==
  LET rel_end_col == region[2]
      abs_size == Size_from_cell(Cell_add(start, Cell_from_size(region)))
  IN  [ next_cell |-> Some(start),
        size |-> abs_size,
        width |-> rel_end_col ]

CellIterator_new(start, region) ==
  LET rel_end_col == region[2]
      abs_size == Size_from_cell(Cell_add(start, Cell_from_size(region)))
  IN  [ next_cell |-> Cell_within(start, abs_size),
        size |-> abs_size,
        width |-> rel_end_col ]

\* Variant: an exhausted iterator is rewound to the first cell of its bound.
CellIterator_next_rewind(it) ==
  LET ret_cell == it.next_cell
      advance(cell) ==
        LET right == Cell_within(Cell_add(cell, << 0, 1 >>), it.size)
            wrapped == Cell_within(
                         Cell_add(Cell_sub(cell, << 0, WrapU16(it.width - 1) >>), << 1, 0 >>),
                         it.size)
        IN  IF right # None THEN right ELSE wrapped
  IN  << ret_cell,
         [ it EXCEPT !.next_cell = IF ret_cell = None THEN Cell_within(<< 0, 0 >>, it.size)
                                   ELSE advance(ret_cell[1]) ] >>

\* next(): << the value returned, the iterator afterwards >>. `or` takes its
\* argument by value, so the wrapped candidate is computed in every call
\* that has a cell; width - 1 is u16 arithmetic.
CellIterator_next(it) ==
  LET ret_cell == it.next_cell
      advance(cell) ==
        LET right == Cell_within(Cell_add(cell, << 0, 1 >>), it.size)
            wrapped == Cell_within(
                         Cell_add(Cell_sub(cell, << 0, WrapU16(it.width - 1) >>), << 1, 0 >>),
                         it.size)
        IN  IF right # None THEN right ELSE wrapped
  IN  << ret_cell,
         [ it EXCEPT !.next_cell = IF ret_cell = None THEN None ELSE advance(ret_cell[1]) ] >>

\* Calls of next() on one iterator in a run.
MaxNext == 8
\* Sampled u16 values of the iterator's start and region: 0..MaxIterCoord,
\* the two values around the i16 sign bit, and the largest u16.
MaxIterCoord == 2
IterVals == (0 .. MaxIterCoord) \cup { I16Max, I16Max + 1, U16Max }

NoGeom == [ op |-> "none", a |-> << 0, 0 >>, b |-> << 0, 0 >>, out |-> None ]
NoIter == [ next_cell |-> None, size |-> << 0, 0 >>, width |-> 0 ]
NoIterIn == [ start |-> << 0, 0 >>, region |-> << 0, 0 >> ]

\* One call of next() by the client.
IterNext ==
  /\ ncalls < MaxNext
  /\ LET r == CellIterator_next(iter)
     IN  /\ iter' = r[2]
         /\ iter_ret' = << "next", r[1] >>
         /\ yielded' = IF r[1] = None THEN yielded ELSE Append(yielded, r[1][1])
  /\ ncalls' = ncalls + 1
  /\ UNCHANGED << iter_in, st, size, trace, fault, proc, call, ret, geom >>

(* --------------------------- specifications ---------------------------- *)
ScreenInit ==
  /\ st = [s \in Screens |-> "Uninitialized"]
  /\ size = [s \in Screens |-> << 0, 0 >>]
  /\ trace = [s \in Screens |-> << >>]
  /\ fault = [s \in Screens |-> "none"]
  /\ proc = "running"
  /\ call = NoCall
  /\ ret = Unit
  /\ ncalls = 0

\* The Screen lifecycle: no iterator is in use.
Init ==
  /\ ScreenInit
  /\ iter = NoIter
  /\ iter_in = NoIterIn
  /\ yielded = << >>
  /\ iter_ret = << "new", None >>
  /\ geom = NoGeom

Next ==
  \E s \in Screens :
    \/ Screen_setup(s)
    \/ Screen_update_size(s)
    \/ Screen_size(s)
    \/ Screen_clear(s)
    \/ Screen_put(s)
    \/ Screen_flush(s)
    \/ Screen_drop(s)

Spec == Init /\ [][Next]_vars

\* A CellIterator just constructed over a sampled start and region.
IterInit ==
  /\ ScreenInit
  /\ \E r0 \in IterVals, c0 \in IterVals, h \in IterVals, w \in IterVals :
       /\ iter_in = [ start |-> << r0, c0 >>, region |-> << h, w >> ]
       /\ iter = CellIterator_new(<< r0, c0 >>, << h, w >>)
  /\ yielded = << >>
  /\ iter_ret = << "new", None >>
  /\ geom = NoGeom

IterSpec == IterInit /\ [][IterNext]_vars

\* Starts and regions of iterators that are run without a limit on the
\* calls: the 2x3 region at the origin, regions whose rows or columns lie at
\* or above 2^15, and regions whose bound wraps around 2^16.
RunInputs ==
  { << << 0, 0 >>, << 2, 3 >> >>,
    << << I16Max + 1, 0 >>, << 1, 1 >> >>,
    << << 0, I16Max + 1 >>, << 1, 2 >> >>,
    << << I16Max, 0 >>, << 1, 2 >> >>,
    << << U16Max, U16Max >>, << 1, 1 >> >>,
    << << U16Max - 1, 0 >>, << 3, 1 >> >> }

\* One call of next() by a client that keeps calling; the cells returned are
\* not collected (yielded stays empty), iter_ret holds the last result.
IterRun ==
  /\ LET r == CellIterator_next(iter)
     IN  /\ iter' = r[2]
         /\ iter_ret' = << "next", r[1] >>
  /\ UNCHANGED << iter_in, yielded, screen_vars, geom >>

IterRunInit ==
  /\ ScreenInit
  /\ geom = NoGeom
  /\ \E i \in RunInputs :
       /\ iter_in = [ start |-> i[1], region |-> i[2] ]
       /\ iter = CellIterator_new(i[1], i[2])
  /\ yielded = << >>
  /\ iter_ret = << "new", None >>

\* The client calls next() again and again.
IterRunSpec == IterRunInit /\ [][IterRun]_vars /\ WF_vars(IterRun)

\* Sampled u16 values of the operands of the Cell operations: 0..MaxGeomCoord,
\* the two values around the i16 sign bit, and the largest u16.
MaxGeomCoord == 1
GeomVals == (0 .. MaxGeomCoord) \cup { I16Max, I16Max + 1, U16Max }
GeomCells == GeomVals \X GeomVals

\* The Cell operations applied to the operands a and b drawn at the start:
\* a.within(Size b), a + b, a - b and (a - b) + b.
Geom_within ==
  /\ geom' = [ geom EXCEPT !.op = "within", !.out = Cell_within(geom.a, geom.b) ]
  /\ UNCHANGED << screen_vars, iter_vars >>

Geom_add ==
  /\ geom' = [ geom EXCEPT !.op = "add", !.out = Some(Cell_add(geom.a, geom.b)) ]
  /\ UNCHANGED << screen_vars, iter_vars >>

Geom_sub ==
  /\ geom' = [ geom EXCEPT !.op = "sub", !.out = Some(Cell_sub(geom.a, geom.b)) ]
  /\ UNCHANGED << screen_vars, iter_vars >>

Geom_sub_add ==
  /\ geom' = [ geom EXCEPT !.op = "sub_add",
                           !.out = Some(Cell_add(Cell_sub(geom.a, geom.b), geom.b)) ]
  /\ UNCHANGED << screen_vars, iter_vars >>

GeomInit ==
  /\ ScreenInit
  /\ iter = NoIter
  /\ iter_in = NoIterIn
  /\ yielded = << >>
  /\ iter_ret = << "new", None >>
  /\ \E a \in GeomCells, b \in GeomCells :
       geom = [ op |-> "none", a |-> a, b |-> b, out |-> None ]

GeomNext == Geom_within \/ Geom_add \/ Geom_sub \/ Geom_sub_add

GeomSpec == GeomInit /\ [][GeomNext]_vars

(* ------------------------------ properties ----------------------------- *)
\* The claims' own reading of the writes, independent of the Terminal
\* operators: the group one put of `c` sends for an in-bounds position.
PutGroup(c) ==
  << << "cursor", c.pos[1] + 1, c.pos[2] + 1 >>,
     << "fg", to_term_color(c.style[2]), 0 >>,
     << "bg", to_term_color(c.style[3]), 0 >>,
     << "put", c.style[1], 0 >> >>
SetupGroup == << << "enable_altscreen", 0, 0 >>, << "hide_cursor", 0, 0 >>, << "clear", 0, 0 >> >>
TeardownGroup == << << "clear", 0, 0 >>, << "show_cursor", 0, 0 >>, << "disable_altscreen", 0, 0 >> >>
Outside(pos, sz) == pos[1] >= sz[1] \/ pos[2] >= sz[2]
LastThree(t) == SubSeq(t, Len(t) - 2, Len(t))
Live == { s \in Screens : st[s] = "Active" }

\* C1: a put whose position has row >= size.rows or col >= size.cols makes
\* no write on any terminal, raises no panic, returns normally and leaves
\* every stored Size (and every Screen's state) as it was.
C1_PutOutsideIsSilent ==
  [][ (call'.op = "put" /\ Outside(call'.pos, size[call'.s]))
        => /\ trace' = trace
           /\ size' = size
           /\ st' = st
           /\ proc' = proc
           /\ fault' = fault
           /\ ret' = Unit ]_vars

\* C1 witness: after an in-bounds put, a put exactly on the row bound of a
\* non-empty stored Size has returned and the trace still ends with the
\* earlier put's group.
C1_Witness ==
  /\ call.op = "put"
  /\ call.s = 1
  /\ size[1] = << 1, U16Max >>
  /\ call.pos = << 1, 0 >>
  /\ Len(trace[1]) = 7
  /\ ret = Unit

\* C2: a put within the stored Size, all of whose writes the terminal
\* accepts, appends to its Screen's trace exactly the four writes cursor
\* (one-indexed row, col), fg, bg, glyph, in that order, after everything
\* written before, and touches no other trace; so the trace of a run of puts
\* is the concatenation of their groups in call order.
C2_PutAppendsGroup ==
  [][ (call'.op = "put" /\ ~Outside(call'.pos, size[call'.s]) /\ ret' = Unit)
        => /\ trace'[call'.s] = trace[call'.s] \o PutGroup(call')
           /\ \A o \in Screens \ { call'.s } : trace'[o] = trace[o] ]_vars

\* C2 witness: two identical in-bounds puts in a row left two groups.
C2_Witness ==
  /\ call.op = "put"
  /\ ret = Unit
  /\ Len(trace[1]) = 11
  /\ SubSeq(trace[1], 4, 7) = PutGroup(call)
  /\ SubSeq(trace[1], 8, 11) = PutGroup(call)

\* C3: an update_size whose query returns v stores v and returns whether v
\* differs in a component from the Size stored before; a second update_size
\* on the same Screen with the same v returns false; size() returns the
\* stored Size.
C3_UpdateSizeStoresAndCompares ==
  [][ /\ (call'.op = "update_size" /\ call'.q # None)
        => LET v == call'.q[1]
               old == size[call'.s]
           IN  /\ size'[call'.s] = v
               /\ ret' = << "bool", v[1] # old[1] \/ v[2] # old[2] >>
               /\ (call.op = "update_size" /\ call.s = call'.s /\ call.q = call'.q)
                    => ret' = << "bool", FALSE >>
      /\ (call'.op = "size") => ret' = << "size", size[call'.s] >> ]_vars

\* C3 witness: an update_size returned false for a query result that is not
\* the initial Size, so an earlier one had stored it and returned true.
C3_Witness ==
  /\ call.op = "update_size"
  /\ call.q = Some(<< 1, U16Max >>)
  /\ size[call.s] = << 1, U16Max >>
  /\ ret = << "bool", FALSE >>

\* C4: an update_size whose query fails returns false, leaves every stored
\* Size as it was, makes no write and raises no panic.
C4_UpdateSizeQueryFails ==
  [][ (call'.op = "update_size" /\ call'.q = None)
        => /\ ret' = << "bool", FALSE >>
           /\ size' = size
           /\ trace' = trace
           /\ st' = st
           /\ proc' = proc
           /\ fault' = fault ]_vars

\* C4 witness: the query failed on a Screen whose stored Size was known.
C4_Witness ==
  /\ call.op = "update_size"
  /\ call.q = None
  /\ size[call.s] = << U16Max, 1 >>
  /\ ret = << "bool", FALSE >>

\* C5: once a Screen is released and its terminal accepted the teardown
\* writes, its trace ends with clear, show-cursor, disable-alternate-screen,
\* whatever was called in between, and nothing is written on it afterwards.
C5_TeardownLast ==
  /\ [](\A s \in Screens :
          (st[s] = "Closed" /\ fault[s] # "drop")
            => /\ Len(trace[s]) >= 6
               /\ LastThree(trace[s]) = TeardownGroup)
  /\ [][ \A s \in Screens : st[s] = "Closed" => trace'[s] = trace[s] ]_vars

\* C5 witness: a Screen was released after an update_size and a put.
C5_Witness ==
  /\ st[1] = "Closed"
  /\ fault[1] = "none"
  /\ Len(trace[1]) = 10
  /\ size[1] # << 0, 0 >>

\* C6: a setup that returns a Screen has written exactly enable-alternate-
\* screen, hide-cursor, clear on its terminal and stored Size (0,0); these
\* stay the first three writes of that Screen's trace.
C6_SetupSequence ==
  /\ [][ (call'.op = "setup" /\ ret' = << "Ok", call'.s >>)
           => /\ trace'[call'.s] = SetupGroup
              /\ size'[call'.s] = << 0, 0 >>
              /\ st'[call'.s] = "Active" ]_vars
  /\ [](\A s \in Screens :
          st[s] \in { "Active", "Closed" }
            => /\ Len(trace[s]) >= 3
               /\ SubSeq(trace[s], 1, 3) = SetupGroup)

\* C6 witness: setup has just returned a Screen.
C6_Witness ==
  /\ call.op = "setup"
  /\ ret = << "Ok", 1 >>
  /\ st[1] = "Active"
  /\ size[1] = << 0, 0 >>
  /\ Len(trace[1]) = 3

\* C7: a setup whose Terminal::new() returns None returns Err, makes no
\* Screen and no write; no write is ever made for it later.
C7_AcquisitionFailure ==
  /\ [][ (call'.op = "setup" /\ call'.q = None)
           => /\ ret' = << "Err", "Failed creating a terminal for stdout." >>
              /\ st'[call'.s] = "Failed"
              /\ \A o \in Screens \ { call'.s } : st'[o] = st[o]
              /\ trace' = trace
              /\ size' = size
              /\ proc' = proc
              /\ fault' = fault ]_vars
  /\ [](\A s \in Screens : st[s] = "Failed" => trace[s] = << >>)
  /\ [][ \A s \in Screens : st[s] = "Failed" => st'[s] = "Failed" ]_vars

\* C7 witness: the first setup failed to acquire, and a later Screen went
\* through its whole life.
C7_Witness ==
  /\ st[1] = "Failed"
  /\ st[2] = "Closed"
  /\ trace[1] = << >>

\* C8: at every moment at most one Screen is live.
C8_AtMostOneLive == Cardinality(Live) <= 1

\* C9: the teardown of a Screen never raises a panic, whichever of its
\* three writes the terminal rejects.
C9_TeardownNeverPanics == \A s \in Screens : fault[s] # "drop"

\* C10: for a start (r0, c0) and region (h, w) with r0 + h <= 65535 and
\* c0 + w <= 65535, the cells yielded so far are the first cells of the
\* row-major enumeration of the region, and once next() has returned None
\* all h*w of them have been yielded.
C10_RowMajor ==
  LET r0 == iter_in.start[1]
      c0 == iter_in.start[2]
      h == iter_in.region[1]
      w == iter_in.region[2]
  IN  (r0 + h <= U16Max /\ c0 + w <= U16Max)
        => /\ \A k \in 1 .. Len(yielded) :
                /\ w > 0
                /\ (k - 1) \div w < h
                /\ yielded[k] = << r0 + ((k - 1) \div w), c0 + ((k - 1) % w) >>
           /\ iter_ret = << "next", None >>
                => IF h = 0 \/ w = 0 THEN Len(yielded) = 0
                   ELSE Len(yielded) % w = 0 /\ Len(yielded) \div w = h

\* C11: once next() has returned None, every later next() on the same
\* iterator returns None.
C11_ExhaustionIsPermanent ==
  [][ iter_ret = << "next", None >> => iter_ret' = << "next", None >> ]_vars

\* C11 witness: after yielding cells, next() was called at least three more
\* times and the last of them returned None.
C11_Witness ==
  /\ iter_ret = << "next", None >>
  /\ Len(yielded) = 2
  /\ ncalls >= Len(yielded) + 3

\* C12: an iterator whose start is not strictly inside its bound
\* (start + region in u16), as is every one with region rows or cols 0,
\* yields no cell at all (so at most the start cell) and every next() on it
\* returns None; the iterator never holds a cell while its width is 0, so
\* width - 1 is never computed from width 0.
C12_StartOutsideYieldsNothing ==
  LET r0 == iter_in.start[1]
      c0 == iter_in.start[2]
      h == iter_in.region[1]
      w == iter_in.region[2]
      outside == r0 >= (r0 + h) % U16Mod \/ c0 >= (c0 + w) % U16Mod
  IN  /\ (h = 0 \/ w = 0) => outside
      /\ outside => /\ yielded = << >>
                    /\ iter.next_cell = None
                    /\ ncalls > 0 => iter_ret = << "next", None >>
      /\ iter.width = w
      /\ ~(iter.width = 0 /\ iter.next_cell # None)

\* C12 witness: next() was called twice on an iterator over a region of
\* two rows and no columns, and nothing was yielded.
C12_Witness ==
  /\ iter_in.region = << 2, 0 >>
  /\ iter_in.start = << 1, 1 >>
  /\ ncalls = 2
  /\ yielded = << >>
  /\ iter_ret = << "next", None >>

\* C13: C.within(S) returns C unchanged iff C.row < S.rows and
\* C.col < S.cols and None otherwise; a row or column equal to the bound is
\* rejected, and Size(0,0) rejects every cell.
C13_WithinIffStrictlyInside ==
  geom.op = "within"
    => LET C == geom.a
           S == geom.b
       IN  /\ (geom.out # None) <=> (C[1] < S[1] /\ C[2] < S[2])
           /\ geom.out # None => geom.out = << C >>
           /\ (C[1] = S[1] \/ C[2] = S[2]) => geom.out = None
           /\ S = << 0, 0 >> => geom.out = None

\* C13 witness: within was applied to a cell on the row bound of a Size
\* that holds its column, and returned None.
C13_Witness ==
  /\ geom.op = "within"
  /\ geom.a = << 1, I16Max + 1 >>
  /\ geom.b = << 1, U16Max >>
  /\ geom.out = None

\* C14: each component of A - B is the exact difference where A's component
\* is at least B's and 0 where it is smaller.
C14_SubSaturates ==
  geom.op = "sub"
    => LET A == geom.a
           B == geom.b
       IN  geom.out = << << IF A[1] >= B[1] THEN A[1] - B[1] ELSE 0,
                            IF A[2] >= B[2] THEN A[2] - B[2] ELSE 0 >> >>

\* C15: each component of (A - B) + B is A's where B's does not exceed it,
\* and B's where it does.
C15_SubAddRoundTrip ==
  geom.op = "sub_add"
    => LET A == geom.a
           B == geom.b
       IN  geom.out = << << IF B[1] > A[1] THEN B[1] ELSE A[1],
                            IF B[2] > A[2] THEN B[2] ELSE A[2] >> >>

\* C16 (as stated): a put never leaves part of its group on the terminal;
\* every cursor write in a trace is followed by its fg, bg and glyph writes.
C16_NoPartialPut ==
  \A s \in Screens :
    \A i \in 1 .. Len(trace[s]) :
      trace[s][i][1] = "cursor"
        => /\ i + 3 <= Len(trace[s])
           /\ trace[s][i + 1][1] = "fg"
           /\ trace[s][i + 2][1] = "bg"
           /\ trace[s][i + 3][1] = "put"

\* C16 (amended): a put that fails at a rejected write panics there; the
\* writes of its group accepted before it, a proper prefix of cursor, fg,
\* bg, glyph, stay on its terminal, nothing else is written, and the stored
\* Sizes are unchanged.
C16_PutFailsLeavingPrefix ==
  [][ (call'.op = "put" /\ ret' = << "panic", 0 >>)
        => /\ ~Outside(call'.pos, size[call'.s])
           /\ \E k \in 0 .. 3 :
                trace'[call'.s] = trace[call'.s] \o SubSeq(PutGroup(call'), 1, k)
           /\ \A o \in Screens \ { call'.s } : trace'[o] = trace[o]
           /\ size' = size
           /\ st' = st
           /\ fault'[call'.s] = "call"
           /\ proc' = "unwinding" ]_vars

\* C16 witness: a put panicked at its background write, leaving its cursor
\* move and foreground on the terminal.
C16_Witness ==
  /\ call.op = "put"
  /\ ret = << "panic", 0 >>
  /\ Len(trace[call.s]) = 5
  /\ trace[call.s][4][1] = "cursor"
  /\ trace[call.s][5][1] = "fg"

\* C18: a stored Size changes only in an update_size of that Screen whose
\* query succeeds, and then to the query's value; put, clear, flush and
\* size() leave every stored Size unchanged, and size() writes nothing and
\* returns the stored Size.
C18_SizeFrame ==
  [][ /\ \A s \in Screens :
           size'[s] # size[s]
             => /\ call'.op = "update_size"
                /\ call'.s = s
                /\ call'.q # None
                /\ size'[s] = call'.q[1]
      /\ call'.op \in { "put", "clear", "flush", "size" } => size' = size
      /\ call'.op = "size"
           => /\ trace' = trace
              /\ proc' = proc
              /\ ret' = << "size", size[call'.s] >> ]_vars

\* C18 witness: a clear returned after a put on a Screen whose stored Size
\* is still the one an update_size set.
C18_Witness ==
  /\ call.op = "clear"
  /\ ret = Unit
  /\ size[call.s] = << 1, 1 >>
  /\ Len(trace[call.s]) = 8

ZeroSize(sz) == sz[1] = 0 \/ sz[2] = 0

\* C19: a Screen returned by setup has a zero component in its stored Size;
\* the stored Size keeps a zero component until an update_size of that
\* Screen succeeds with rows > 0 and cols > 0 (a failed query keeps it);
\* and every put made while it has a zero component writes nothing.
C19_NothingDrawnBeforeSized ==
  [][ \A s \in Screens :
        /\ (call'.op = "setup" /\ call'.s = s /\ ret' = << "Ok", s >>)
             => ZeroSize(size'[s])
        /\ (ZeroSize(size[s]) /\ ~ZeroSize(size'[s]))
             => /\ call'.op = "update_size"
                /\ call'.s = s
                /\ call'.q # None
                /\ call'.q[1][1] > 0
                /\ call'.q[1][2] > 0
        /\ (call'.op = "put" /\ call'.s = s /\ ZeroSize(size[s]))
             => /\ trace' = trace
                /\ ret' = Unit ]_vars

\* C19 witness: a put at (0,0) returned without a write on a Screen whose
\* stored Size has rows but no columns.
C19_Witness ==
  /\ call.op = "put"
  /\ call.pos = << 0, 0 >>
  /\ size[call.s] = << U16Max, 0 >>
  /\ trace[call.s] = SetupGroup
  /\ ret = Unit

\* C20: the cursor write a put makes is for a position with row < size.rows
\* and col < size.cols of the Size stored at the call, and carries row + 1
\* and col + 1 unwrapped: values in 1..size.rows and 1..size.cols; no cursor
\* write in any trace carries a 0.
C20_CursorOneIndexed ==
  /\ [][ \A s \in Screens :
           (call'.op = "put" /\ call'.s = s /\ Len(trace'[s]) > Len(trace[s]))
             => LET w == trace'[s][Len(trace[s]) + 1]
                IN  /\ w[1] = "cursor"
                    /\ call'.pos[1] < size[s][1]
                    /\ call'.pos[2] < size[s][2]
                    /\ w[2] = call'.pos[1] + 1
                    /\ w[3] = call'.pos[2] + 1
                    /\ 1 <= w[2] /\ w[2] <= size[s][1]
                    /\ 1 <= w[3] /\ w[3] <= size[s][2] ]_vars
  /\ [](\A s \in Screens :
          \A i \in 1 .. Len(trace[s]) :
            trace[s][i][1] = "cursor" => (trace[s][i][2] >= 1 /\ trace[s][i][3] >= 1))

\* C20 witness: a put at (1,1) on a Screen of the largest Size wrote the
\* cursor position (2,2).
C20_Witness ==
  /\ call.op = "put"
  /\ call.pos = << 1, 1 >>
  /\ size[call.s] = << U16Max, U16Max >>
  /\ ret = Unit
  /\ Len(trace[call.s]) = 7
  /\ trace[call.s][4] = << "cursor", 2, 2 >>

\* C17: under repeated calls next() eventually returns None, and every cell
\* it returns is strictly inside the iterator's stored bound.
C17_TerminatesInsideBound ==
  /\ <>(iter_ret = << "next", None >>)
  /\ [](iter_ret[2] # None
          => /\ iter_ret[2][1][1] < iter.size[1]
             /\ iter_ret[2][1][2] < iter.size[2])

====
